---- MODULE Spec2Model ----
(***************************************************************************)
(* Model of src/TuringMachine.py: the Turing-machine engine (validate_input,*)
(* step_machine, get_utm_tape_for_unary_add) and the run loop of main().    *)
(*                                                                          *)
(* A Python str is modelled as the sequence of its characters, a list as a  *)
(* sequence, a dict as a function.  Python indexes from 0 and TLA+ from 1:  *)
(* head keeps the source's 0-based value and cell i of a tape is tape[i+1]. *)
(***************************************************************************)
EXTENDS Integers, Sequences, FiniteSets, TLC

VARIABLES
    config,     \* the TuringConfig returned by load_machine_config
    raw,        \* the string create_machine_input returned
    is_utm,     \* the flag create_machine_input returned
    input_str,  \* main's local input_str (reassigned by the UTM encoding)
    valid,      \* what validate_input returned (FALSE until it is called)
    tape,       \* TuringState.tape of the run's state object
    head,       \* TuringState.head
    state,      \* TuringState.state (the state name)
    ref,        \* main's local `state`: "unset", "obj" or "None"
    pc,         \* position in main: "start", "invalid", "loop", "halted", "rejected",
                \* or "crashed" (an exception left main)
    result,     \* the tape shown as "Final result" (set when the run halts)
    calls,      \* number of step_machine calls made so far
    emitted,    \* the snapshots rendered into vis_placeholder, in order
    twin,       \* a second run of the same definition on the same input
    lead,       \* how many actions the first run is ahead of the second
    ideal       \* a Turing machine on a two-way infinite tape, run alongside

runvars == <<input_str, valid, tape, head, state, ref, pc, result, calls, emitted>>
vars == <<config, raw, is_utm, runvars, twin, lead, ideal>>

(***************************************************************************)
(* Bounds of the model.                                                     *)
(***************************************************************************)
MaxLen == 1     \* longest string typed into the input box (engine runs)
MaxSteps == 4   \* step_machine calls explored per run
MaxRules == 2   \* rules in a transition table

Range(s) == {s[i] : i \in DOMAIN s}

(***************************************************************************)
(* Machine definitions over the symbols "1" and "." and the states "A" and  *)
(* "B": "A" is the initial state and owns the rules.                        *)
(***************************************************************************)
Symbols == {"1", "."}
States == {"A", "B"}
Actions == {"LEFT", "RIGHT"}
Rules == [read : Symbols, write : Symbols, to_state : States, action : Actions]

RuleLists(n) == UNION {[1..k -> Rules] : k \in 0..n}

\* The rule list of "A", alone or shared with "B" (a table without the key
\* "B" sends the lookup of "B" through the default of transitions.get).
Tables == {[s \in K |-> a] : a \in RuleLists(MaxRules), K \in {{"A"}, {"A", "B"}}}

Finals == {{}, {"A"}, {"B"}}
Strings(n) == UNION {[1..k -> Symbols] : k \in 0..n}
Inputs == Strings(MaxLen)

MakeConfigs(alphabets, tables) ==
    [name : {"m"}, alphabet : alphabets, blank : {"."}, states : {States},
     initial : {"A"}, finals : Finals, transitions : tables]

\* The definitions of the engine's runs.
Configs == MakeConfigs({<<"1">>, <<"1", ".">>}, Tables)

\* The definitions of the runs that exercise validation and encoding: every
\* alphabet of at most two symbols, tables of at most one rule.
AlphabetsV == Strings(2)
InputsV == Strings(MaxLen + 1)
ConfigsV == MakeConfigs(AlphabetsV, {[s \in {"A"} |-> a] : a \in RuleLists(1)})

\* The definitions of the paired runs: every input is valid.
ConfigsDet == MakeConfigs({<<"1", ".">>}, Tables)

\* Definitions as a file may hold them: data without the key f.
Drop(data, f) == [k \in DOMAIN data \ {f} |-> data[k]]

\* Rules as a file may hold them: complete, or lacking one of their keys.
RuleFields == {"read", "write", "to_state", "action"}
RulesM == Rules \cup {Drop(r, f) : r \in Rules, f \in RuleFields}

\* The definitions of the runs on files that may be malformed: rule lists of
\* at most two such rules, or a record lacking one of its seven keys.
ConfigsM ==
    LET whole == MakeConfigs({<<"1", ".">>},
                             {[s \in {"A"} |-> a] :
                                  a \in UNION {[1..k -> RulesM] : k \in 0..2}})
        some == MakeConfigs({<<"1", ".">>}, {[s \in {"A"} |-> a] : a \in RuleLists(1)})
    IN  whole \cup {Drop(c, f) : c \in some, f \in {"name", "alphabet", "blank", "states",
                                                    "initial", "finals", "transitions"}}

NoTwin == [pc |-> "none"]
NoIdeal == [status |-> "none"]

(***************************************************************************)
(* validate_input: all(c in alphabet for c in input_str).  The generator is *)
(* consumed from the first character on and all() stops at the first False. *)
(***************************************************************************)
InList(c, lst) == \E j \in 1..Len(lst) : lst[j] = c

RECURSIVE AllFrom(_, _, _)
AllFrom(s, alphabet, i) ==
    IF i > Len(s) THEN TRUE
    ELSE IF ~InList(s[i], alphabet) THEN FALSE
    ELSE AllFrom(s, alphabet, i + 1)

\* any() where the code has all().
ValidateAny(s, alphabet) == \E i \in 1..Len(s) : InList(s[i], alphabet)

\* A validation that also refuses the empty input and the empty alphabet.
ValidateNonVacuous(s, alphabet) ==
    Len(s) > 0 /\ Len(alphabet) > 0 /\ AllFrom(s, alphabet, 1)

validate_input(s, alphabet) == AllFrom(s, alphabet, 1)

(***************************************************************************)
(* get_utm_tape_for_unary_add                                               *)
(***************************************************************************)
utm_prefix == <<"1", ".", "+", "=", " ", ".", " ", "A", "B", "C", " ",
                "a", "A", "1", "B", ".", ">", " ",
                "b", "B", "1", "B", "1", ">", " ",
                "b", "B", "+", "B", "1", ">", " ",
                "b", "B", "=", "C", ".", ">", " ", "#">>
utm_suffix == <<" ", "@">>

\* An encoding that writes the input back to front.
EncodeReordered(s) ==
    utm_prefix \o [i \in 1..Len(s) |-> s[Len(s) + 1 - i]] \o utm_suffix

get_utm_tape_for_unary_add(s) == utm_prefix \o s \o utm_suffix

(***************************************************************************)
(* step_machine                                                             *)
(***************************************************************************)
\* A left growth that puts the blank at the wrong end of the tape.
NormTapeAppendOnly(t, h, blank) ==
    IF h < 0 \/ h >= Len(t) THEN Append(t, blank) ELSE t

\* A normalization that also appends a blank when the head is inside.
NormTapeAlways(t, h, blank) == IF h < 0 THEN <<blank>> \o t ELSE Append(t, blank)

\* lines 42-46: the tape after the boundary normalization
NormTape(t, h, blank) ==
    IF h < 0 THEN <<blank>> \o t
    ELSE IF h >= Len(t) THEN Append(t, blank)
    ELSE t

\* lines 42-44: the head after the boundary normalization
NormHead(h) == IF h < 0 THEN 0 ELSE h

\* config.transitions.get(state.state, [])
TransitionsGet(transitions, s) ==
    IF s \in DOMAIN transitions THEN transitions[s] ELSE <<>>

\* A lookup that may return any rule that reads sym, not the first one.
MatchesAny(rules, sym) == {i \in 1..Len(rules) : rules[i].read = sym}

\* A lookup that returns the last rule that reads sym.
MatchesLast(rules, sym) ==
    {i \in 1..Len(rules) : /\ rules[i].read = sym
                           /\ \A j \in (i + 1)..Len(rules) : rules[j].read # sym}

\* A lookup that returns the first rule of the list whatever it reads.
MatchesFirstRule(rules, sym) == IF rules = <<>> THEN {} ELSE {1}

\* next((t for t in transitions if t["read"] == current_symbol), None):
\* the indices next() may return, the first rule that reads sym (none: {}).
Matches(rules, sym) ==
    {i \in 1..Len(rules) : /\ "read" \in DOMAIN rules[i]
                           /\ rules[i].read = sym
                           /\ \A j \in 1..(i - 1) : /\ "read" \in DOMAIN rules[j]
                                                    /\ rules[j].read # sym}

\* line 50: t["read"] raises KeyError when the scan meets a rule without the
\* key "read" before it meets a rule that reads sym.
LookupRaises(rules, sym) ==
    \E i \in 1..Len(rules) :
        /\ "read" \notin DOMAIN rules[i]
        /\ \A j \in 1..(i - 1) : "read" \in DOMAIN rules[j] /\ rules[j].read # sym

\* A left move that goes one cell too far.
MoveFar(h, action) == IF action = "RIGHT" THEN h + 1 ELSE h - 2

\* A move that ignores the rule's action.
MoveRightOnly(h, action) == h + 1

\* state.head += 1 if transition["action"] == "RIGHT" else -1
Move(h, action) == IF action = "RIGHT" THEN h + 1 ELSE h - 1

\* state.tape[state.head] = transition["write"]
WriteCell(t, h, sym) == [t EXCEPT ![h + 1] = sym]

\* lines 55-59: the rule tr applied to the normalized object, one statement
\* after the other; a key the rule lacks raises KeyError at its statement
\* and leaves what the earlier statements did.
ApplyRule(nt, nh, s, tr) ==
    IF "write" \notin DOMAIN tr
    THEN [tape |-> nt, head |-> nh, state |-> s, ret |-> "KeyError"]
    ELSE IF "to_state" \notin DOMAIN tr
    THEN [tape |-> WriteCell(nt, nh, tr.write), head |-> nh, state |-> s,
          ret |-> "KeyError"]
    ELSE IF "action" \notin DOMAIN tr
    THEN [tape |-> WriteCell(nt, nh, tr.write), head |-> nh, state |-> tr.to_state,
          ret |-> "KeyError"]
    ELSE [tape |-> WriteCell(nt, nh, tr.write), head |-> Move(nh, tr.action),
          state |-> tr.to_state, ret |-> "obj"]

\* The outcomes of one call: the fields of the state object after it and how
\* the call ended (ret = "obj": the state object returned, ret = "None",
\* ret = "KeyError": the exception raised).
step_machine(cfg, t, h, s) ==
    LET nt == NormTape(t, h, cfg.blank)
        nh == NormHead(h)
        current_symbol == nt[nh + 1]
        transitions == TransitionsGet(cfg.transitions, s)
        found == Matches(transitions, current_symbol)
    IN  IF LookupRaises(transitions, current_symbol)
        THEN {[tape |-> nt, head |-> nh, state |-> s, ret |-> "KeyError"]}
        ELSE IF found = {}
        THEN {[tape |-> nt, head |-> nh, state |-> s, ret |-> "None"]}
        ELSE {ApplyRule(nt, nh, s, transitions[i]) : i \in found}

(***************************************************************************)
(* load_machine_config: data["name"], ..., data["transitions"] are read and *)
(* passed to TuringConfig as they are; a missing key raises KeyError.       *)
(***************************************************************************)
ConfigFields == {"name", "alphabet", "blank", "states", "initial", "finals",
                 "transitions"}

LoadRaises(data) == \E f \in ConfigFields : f \notin DOMAIN data

(***************************************************************************)
(* main: the handler of the Run button and its loop                         *)
(***************************************************************************)
\* A loop that does not test the state name against finals.
LoopCondNoFinals(r, s, finals) == r = "obj"

\* A loop that does not test the value step_machine returned.
LoopCondNoNoneTest(r, s, finals) == s \notin finals

\* while state and state.state not in config.finals
\* A loop that also gives up after two steps.
LoopCondStepLimit(r, s, finals) == r = "obj" /\ s \notin finals /\ calls < 2

LoopCond(r, s, finals) == r = "obj" /\ s \notin finals

\* main up to the Run button: the definition on disk, the typed input and
\* the machine type are any of C, I and U; nothing is built yet.
StartOfMain(C, I, U) ==
    /\ config \in C
    /\ raw \in I
    /\ is_utm \in U
    /\ input_str = raw
    /\ valid = FALSE
    /\ tape = <<>>
    /\ head = 0
    /\ state = ""
    /\ ref = "unset"
    /\ pc = "start"
    /\ result = <<>>
    /\ calls = 0
    /\ emitted = <<>>

Init == StartOfMain(Configs, Inputs, {FALSE}) /\ twin = NoTwin /\ lead = 0 /\ ideal = NoIdeal

\* A handler that reports the invalid input and goes on to build the state.
RunButtonNoReturn ==
    /\ pc = "start"
    /\ valid' = validate_input(input_str, config.alphabet)
    /\ input_str' = IF is_utm THEN get_utm_tape_for_unary_add(input_str)
                               ELSE input_str
    /\ tape' = input_str'
    /\ head' = 0
    /\ state' = config.initial
    /\ ref' = "obj"
    /\ pc' = "loop"
    /\ UNCHANGED <<config, raw, is_utm, result, calls, emitted>>

\* lines 325-341: load the definition, validate, encode, build the state
RunButton ==
    /\ pc = "start"
    /\ IF LoadRaises(config)
       THEN /\ pc' = "crashed"
            /\ UNCHANGED <<valid, input_str, tape, head, state, ref>>
       ELSE /\ valid' = validate_input(input_str, config.alphabet)
            /\ IF ~valid'
               THEN /\ pc' = "invalid"
                    /\ UNCHANGED <<input_str, tape, head, state, ref>>
               ELSE /\ input_str' = IF is_utm
                                     THEN get_utm_tape_for_unary_add(input_str)
                                     ELSE input_str
                    /\ tape' = input_str'
                    /\ head' = 0
                    /\ state' = config.initial
                    /\ ref' = "obj"
                    /\ pc' = "loop"
    /\ UNCHANGED <<config, raw, is_utm, result, calls, emitted>>

\* lines 343-350: one iteration of the loop (render, then step)
LoopIter ==
    /\ pc = "loop"
    /\ LoopCond(ref, state, config.finals)
    /\ calls < MaxSteps
    /\ emitted' = Append(emitted, <<tape, head, state>>)
    /\ \E o \in step_machine(config, tape, head, state) :
          /\ tape' = o.tape
          /\ head' = o.head
          /\ state' = o.state
          /\ IF o.ret = "KeyError"
             THEN ref' = ref /\ pc' = "crashed"
             ELSE ref' = o.ret /\ pc' = pc
    /\ calls' = calls + 1
    /\ UNCHANGED <<config, raw, is_utm, input_str, valid, result>>

\* An exit that reports the halt without rendering the final state.
LoopExitNoFinalRender ==
    /\ pc = "loop"
    /\ ~LoopCond(ref, state, config.finals)
    /\ IF ref = "obj"
       THEN /\ result' = tape
            /\ pc' = "halted"
            /\ UNCHANGED emitted
       ELSE /\ pc' = "rejected"
            /\ UNCHANGED <<emitted, result>>
    /\ UNCHANGED <<config, raw, is_utm, input_str, valid, tape, head, state, ref, calls>>

\* lines 343, 352-364: the loop condition fails; report the outcome
LoopExit ==
    /\ pc = "loop"
    /\ ~LoopCond(ref, state, config.finals)
    /\ IF ref = "obj"
       THEN /\ emitted' = Append(emitted, <<tape, head, state>>)
            /\ result' = tape
            /\ pc' = "halted"
       ELSE /\ pc' = "rejected"
            /\ UNCHANGED <<emitted, result>>
    /\ UNCHANGED <<config, raw, is_utm, input_str, valid, tape, head, state, ref, calls>>

MainNext == RunButton \/ LoopIter \/ LoopExit

\* One run: the second run's variables stay as Init leaves them.
Next ==
    \/ RunButton /\ UNCHANGED <<twin, lead, ideal>>
    \/ LoopIter /\ UNCHANGED <<twin, lead, ideal>>
    \/ LoopExit /\ UNCHANGED <<twin, lead, ideal>>

Spec == Init /\ [][Next]_vars

\* The loop of lines 343-350 runs without waiting for anything: an iteration
\* or the exit that can be taken is taken.  Pressing the button is up to the
\* user.
SpecFair ==
    /\ Init
    /\ [][Next]_vars
    /\ WF_vars(LoopIter /\ UNCHANGED <<twin, lead, ideal>>)
    /\ WF_vars(LoopExit /\ UNCHANGED <<twin, lead, ideal>>)

\* The same program started on the definitions and inputs that exercise
\* validate_input and the UTM encoding.
InitV == StartOfMain(ConfigsV, InputsV, BOOLEAN) /\ twin = NoTwin /\ lead = 0 /\ ideal = NoIdeal

SpecV == InitV /\ [][Next]_vars

\* The same program started on files that may be malformed.
InitM == StartOfMain(ConfigsM, Inputs, {FALSE}) /\ twin = NoTwin /\ lead = 0 /\ ideal = NoIdeal

SpecM == InitM /\ [][Next]_vars

(***************************************************************************)
(* A second run of main on the same definition and the same input, stepped  *)
(* side by side with the first: the first run takes an action, then the     *)
(* second takes its own.  twin holds the second run's locals and object.    *)
(***************************************************************************)
RunRec == [input_str |-> input_str, valid |-> valid, tape |-> tape, head |-> head,
           state |-> state, ref |-> ref, pc |-> pc, result |-> result,
           calls |-> calls, emitted |-> emitted]

\* lines 325-341 for the second run
TwinButton ==
    /\ twin.pc = "start"
    /\ LET v == validate_input(twin.input_str, config.alphabet)
           s == IF is_utm THEN get_utm_tape_for_unary_add(twin.input_str)
                          ELSE twin.input_str
       IN twin' = IF LoadRaises(config)
                  THEN [twin EXCEPT !.pc = "crashed"]
                  ELSE IF ~v
                  THEN [twin EXCEPT !.valid = v, !.pc = "invalid"]
                  ELSE [twin EXCEPT !.valid = v, !.input_str = s, !.tape = s,
                                    !.head = 0, !.state = config.initial,
                                    !.ref = "obj", !.pc = "loop"]

\* lines 343-350 for the second run
TwinIter ==
    /\ twin.pc = "loop"
    /\ LoopCond(twin.ref, twin.state, config.finals)
    /\ twin.calls < MaxSteps
    /\ \E o \in step_machine(config, twin.tape, twin.head, twin.state) :
          twin' = [twin EXCEPT
                     !.emitted = Append(@, <<twin.tape, twin.head, twin.state>>),
                     !.tape = o.tape, !.head = o.head, !.state = o.state,
                     !.ref = IF o.ret = "KeyError" THEN @ ELSE o.ret,
                     !.pc = IF o.ret = "KeyError" THEN "crashed" ELSE @,
                     !.calls = @ + 1]

\* lines 343, 352-364 for the second run
TwinExit ==
    /\ twin.pc = "loop"
    /\ ~LoopCond(twin.ref, twin.state, config.finals)
    /\ twin' = IF twin.ref = "obj"
               THEN [twin EXCEPT
                       !.emitted = Append(@, <<twin.tape, twin.head, twin.state>>),
                       !.result = twin.tape, !.pc = "halted"]
               ELSE [twin EXCEPT !.pc = "rejected"]

InitDet ==
    StartOfMain(ConfigsDet, Inputs, {FALSE}) /\ twin = RunRec /\ lead = 0 /\ ideal = NoIdeal

FirstRun(A) == lead = 0 /\ A /\ lead' = 1 /\ UNCHANGED <<twin, ideal>>

SecondRun(A) ==
    lead = 1 /\ A /\ lead' = 0 /\ UNCHANGED <<config, raw, is_utm, runvars, ideal>>

NextDet ==
    \/ FirstRun(RunButton)
    \/ FirstRun(LoopIter)
    \/ FirstRun(LoopExit)
    \/ SecondRun(TwinButton)
    \/ SecondRun(TwinIter)
    \/ SecondRun(TwinExit)

SpecDet == InitDet /\ [][NextDet]_vars

(***************************************************************************)
(* The reference: a Turing machine whose tape is a function from the        *)
(* integers to symbols, blank outside the seed.  Window is the part of the  *)
(* integers a head can reach within the explored steps.  Each step_machine  *)
(* call of the run is paired with one step of the reference.                *)
(***************************************************************************)
Window == (0 - MaxSteps - 1)..(MaxLen + MaxSteps + 1)

IdealStart(cfg, seed) ==
    [cells |-> [p \in Window |-> IF 0 <= p /\ p < Len(seed) THEN seed[p + 1]
                                 ELSE cfg.blank],
     pos |-> 0,
     state |-> cfg.initial,
     status |-> IF cfg.initial \in cfg.finals THEN "halted" ELSE "running",
     steps |-> 0]

\* The rule of state q for sym: the first in declaration order, if any.
IdealRule(cfg, q, sym) ==
    LET rules == IF q \in DOMAIN cfg.transitions THEN cfg.transitions[q] ELSE <<>>
        idx == {i \in 1..Len(rules) : rules[i].read = sym}
    IN  {rules[i] : i \in {k \in idx : \A j \in idx : k <= j}}

IdealStep(cfg, m) ==
    IF m.status # "running" THEN m
    ELSE LET rs == IdealRule(cfg, m.state, m.cells[m.pos])
         IN  IF rs = {}
             THEN [m EXCEPT !.status = "rejected", !.steps = @ + 1]
             ELSE LET r == CHOOSE x \in rs : TRUE
                  IN  [cells |-> [m.cells EXCEPT ![m.pos] = r.write],
                       pos |-> IF r.action = "RIGHT" THEN m.pos + 1 ELSE m.pos - 1,
                       state |-> r.to_state,
                       status |-> IF r.to_state \in cfg.finals THEN "halted"
                                  ELSE "running",
                       steps |-> m.steps + 1]

InitRef ==
    StartOfMain(ConfigsDet, Inputs, {FALSE}) /\ twin = NoTwin /\ lead = 0 /\ ideal = NoIdeal

RefButton ==
    /\ RunButton
    /\ ideal' = IF pc' = "loop" THEN IdealStart(config, input_str') ELSE ideal
    /\ UNCHANGED <<twin, lead>>

RefIter == LoopIter /\ ideal' = IdealStep(config, ideal) /\ UNCHANGED <<twin, lead>>

RefExit == LoopExit /\ UNCHANGED <<twin, lead, ideal>>

NextRef == RefButton \/ RefIter \/ RefExit

SpecRef == InitRef /\ [][NextRef]_vars

(***************************************************************************)
(* Properties                                                               *)
(***************************************************************************)
\* The last step_machine call returned the state object.
Completed == calls >= 1 /\ ref = "obj" /\ pc # "crashed"

\* The snapshot rendered right before the last step_machine call: the state
\* object as that call found it.
PreTape == emitted[calls][1]
PreHead == emitted[calls][2]
PreState == emitted[calls][3]

\* The normalized head of the last call and the shift of the stored cells.
Shift == IF PreHead < 0 THEN 1 ELSE 0
NHead == IF PreHead < 0 THEN 0 ELSE PreHead

\* The symbol the last call read: a stored cell, or the blank of a new cell.
SymbolRead == IF PreHead >= 0 /\ PreHead < Len(PreTape) THEN PreTape[PreHead + 1]
              ELSE config.blank

\* The rules of the definition for the state the last call was made in.
RulesOfPre == IF PreState \in DOMAIN config.transitions
              THEN Range(config.transitions[PreState]) ELSE {}

\* C1 as stated: after every completed step the head is inside the tape,
\* 0 <= head < len(tape).
C1_HeadInsideAfterStep == Completed => (0 <= head /\ head < Len(tape))

\* C1 amended: after every completed step the head is at most one cell
\* outside the tape, -1 <= head <= len(tape), and the normalization that the
\* next call starts with puts it inside before the symbol is read.
C1_HeadAtMostOneOutside ==
    Completed =>
        /\ -1 <= head /\ head <= Len(tape)
        /\ 0 <= NormHead(head)
        /\ NormHead(head) < Len(NormTape(tape, head, config.blank))

\* A completed step that left the head at -1.
C1_Witness == Completed /\ head = -1 /\ Len(tape) >= 1

\* C2 step discipline: a step that finds a rule keeps the length of the
\* normalized tape, writes the rule's write symbol into the cell under the
\* normalized head, keeps every other stored cell, takes the rule's to_state
\* and moves the head by +1 for RIGHT and by -1 for LEFT.
C2_StepDiscipline ==
    Completed =>
        /\ \E r \in RulesOfPre :
              /\ r.read = SymbolRead
              /\ tape[NHead + 1] = r.write
              /\ state = r.to_state
              /\ r.action = "RIGHT" => head = NHead + 1
              /\ r.action = "LEFT" => head = NHead - 1
        /\ head - NHead \in {1, -1}
        /\ \A i \in 1..Len(PreTape) :
              i + Shift # NHead + 1 => tape[i + Shift] = PreTape[i]
        /\ Len(tape) \in {Len(PreTape), Len(PreTape) + 1}
        /\ Len(tape) = Len(PreTape) + 1 => (PreHead < 0 \/ PreHead >= Len(PreTape))

\* A completed step that changed the symbol of a stored cell and moved left.
C2_Witness ==
    /\ Completed
    /\ PreHead >= 0 /\ PreHead < Len(PreTape)
    /\ tape[PreHead + 1] # PreTape[PreHead + 1]
    /\ head = PreHead - 1
    /\ Len(tape) >= 2

\* C3 boundary growth: a step entered with the head off the left end (after
\* a left move from cell 0) puts exactly one blank at index 0, shifts every
\* stored cell right by one and works at head 0, so that its written symbol
\* is at the new index 0; a step entered with the head off the right end
\* appends exactly one blank and shifts nothing.
C3_BoundaryGrowth ==
    calls >= 1 =>
        /\ PreHead < 0 =>
              /\ PreHead = -1
              /\ Len(tape) = Len(PreTape) + 1
              /\ \A i \in 1..Len(PreTape) : tape[i + 1] = PreTape[i]
              /\ ref = "None" => (tape[1] = config.blank /\ head = 0)
              /\ ref = "obj" =>
                    /\ head \in {-1, 1}
                    /\ \E r \in RulesOfPre :
                          r.read = config.blank /\ tape[1] = r.write
        /\ PreHead >= Len(PreTape) =>
              /\ PreHead = Len(PreTape)
              /\ Len(tape) = Len(PreTape) + 1
              /\ \A i \in 1..Len(PreTape) : tape[i] = PreTape[i]
              /\ ref = "None" => (tape[Len(tape)] = config.blank /\ head = PreHead)
              /\ ref = "obj" =>
                    /\ head \in {PreHead - 1, PreHead + 1}
                    /\ \E r \in RulesOfPre :
                          r.read = config.blank /\ tape[Len(tape)] = r.write

\* A step entered at -1 wrote "1" over the inserted blank, in front of a
\* stored cell "." that moved to index 1.
C3_Witness ==
    /\ Completed
    /\ PreHead = -1
    /\ Len(PreTape) >= 1 /\ PreTape[1] = "."
    /\ tape[1] = "1" /\ tape[2] = "."

\* C4 run-level state machine: the run becomes Halted exactly when the
\* current state name is in finals and Rejected exactly when step_machine
\* returned None in a state outside finals; Halted and Rejected exclude each
\* other and are absorbing; step_machine is called only while the run is
\* Running, never on a state in finals and never after None.
C4_RunStateMachine ==
    [][/\ (pc' = "halted" /\ pc # "halted") =>
              (pc = "loop" /\ ref = "obj" /\ state \in config.finals)
       /\ (pc = "loop" /\ ref = "obj" /\ state \in config.finals) =>
              (pc' = "halted" /\ calls' = calls)
       /\ (pc' = "rejected" /\ pc # "rejected") =>
              (pc = "loop" /\ ref = "None" /\ calls >= 1
               /\ PreState \notin config.finals)
       /\ (pc = "loop" /\ ref = "None") => (pc' = "rejected" /\ calls' = calls)
       /\ pc \in {"halted", "rejected"} =>
              UNCHANGED <<pc, calls, tape, head, state, ref, result, emitted>>
       /\ calls' # calls =>
              (pc = "loop" /\ ref = "obj" /\ state \notin config.finals)
      ]_vars

\* A run that halted with the head on a symbol for which the final state
\* has a rule.
C4_Witness ==
    /\ pc = "halted"
    /\ head >= 0 /\ head < Len(tape)
    /\ Matches(TransitionsGet(config.transitions, state), tape[head + 1]) # {}

\* C5 accept-on-entry: with initial in finals a valid run makes no
\* step_machine call and can only exit the loop as Halted; the tape is the
\* seed string (the input, or its UTM encoding), head is 0, the state is
\* initial, and the reported result is that tape.
C5_AcceptOnEntry ==
    (valid /\ config.initial \in config.finals) =>
        /\ calls = 0
        /\ pc \in {"loop", "halted"}
        /\ ref = "obj"
        /\ input_str = (IF is_utm THEN utm_prefix \o raw \o utm_suffix ELSE raw)
        /\ tape = input_str
        /\ head = 0
        /\ state = config.initial
        /\ pc = "halted" => (result = input_str
                             /\ emitted = <<<<input_str, 0, config.initial>>>>)

\* The empty input accepted on entry by a definition that has a rule.
C5_Witness ==
    /\ pc = "halted"
    /\ config.initial \in config.finals
    /\ raw = <<>> /\ tape = <<>>
    /\ config.transitions["A"] # <<>>

\* The first symbol the run reads: the first character of the seed string,
\* the blank for the empty seed.
FirstSymbol == IF input_str = <<>> THEN config.blank ELSE input_str[1]

\* No rule of initial reads the first symbol, and initial is not final.
Stuck ==
    /\ valid
    /\ config.initial \notin config.finals
    /\ \A r \in (IF config.initial \in DOMAIN config.transitions
                 THEN Range(config.transitions[config.initial]) ELSE {}) :
          r.read # FirstSymbol

\* C6 stuck machine: with initial outside finals and no rule for (initial,
\* first symbol) the only step_machine call returns None, no step completes,
\* and the run ends Rejected: never Halted, no final result.
C6_StuckRejected ==
    Stuck =>
        /\ pc \in {"loop", "rejected"}
        /\ calls <= 1
        /\ calls = 0 => (ref = "obj" /\ pc = "loop")
        /\ calls = 1 => (ref = "None" /\ state = config.initial)
        /\ result = <<>>
        /\ Len(emitted) = calls

\* A definition with rules, none of them for the first symbol, rejected.
C6_Witness ==
    /\ Stuck
    /\ pc = "rejected"
    /\ config.transitions["A"] # <<>>
    /\ input_str # <<>>

\* C7 determinism: two runs of the same definition on the same input that
\* have taken the same number of actions agree on every local and on the
\* state object: tape, head, state, the snapshots emitted so far and the
\* outcome.
C7_Determinism == lead = 0 => twin = RunRec

\* Both runs completed two steps in a state with two rules for the symbol
\* read, the rules differing in what they do.
C7_Witness ==
    /\ lead = 0
    /\ calls >= 2 /\ twin.calls = calls
    /\ Completed
    /\ \E r1, r2 \in RulesOfPre :
          r1 # r2 /\ r1.read = SymbolRead /\ r2.read = SymbolRead

\* C8 validate_input membership: the call returns true if every character
\* of the input is in the alphabet and false if some character is not.
C8_ValidateMembership ==
    pc # "start" =>
        /\ (\A i \in 1..Len(raw) : raw[i] \in Range(config.alphabet)) => valid
        /\ (\E i \in 1..Len(raw) : raw[i] \notin Range(config.alphabet)) => ~valid

\* A two-character input accepted against a two-symbol alphabet.
C8_Witness ==
    /\ pc # "start"
    /\ valid
    /\ Len(raw) = 2 /\ raw[1] # raw[2]

C10_InvalidInputGatesRun ==
    /\ (pc # "start" /\ ~valid) =>
          /\ pc = "invalid"
          /\ ref = "unset" /\ tape = <<>>
          /\ calls = 0
          /\ emitted = <<>> /\ result = <<>>
          /\ input_str = raw
    /\ (ref # "unset" \/ calls >= 1 \/ emitted # <<>> \/ pc \in {"loop", "halted", "rejected"}) =>
          valid

\* An invalid input of the UTM machine type stopped at the gate.
C10_Witness ==
    /\ pc = "invalid"
    /\ is_utm
    /\ Len(raw) = 2

\* A definition lacks a required key, or one of its rules lacks read, write,
\* to_state or action.
Malformed(data) ==
    \/ LoadRaises(data)
    \/ \E s \in DOMAIN data.transitions :
          \E i \in 1..Len(data.transitions[s]) :
              RuleFields \ DOMAIN data.transitions[s][i] # {}

\* C11 malformed definitions fail at load time: for a definition that lacks
\* a required key or has a rule without read, write, to_state or action, the
\* handler stops at the load; no state object is built from it and no
\* step_machine call is made with it.
C11_MalformedFailsAtLoad ==
    Malformed(config) =>
        /\ pc \in {"start", "crashed"}
        /\ ref = "unset"
        /\ calls = 0

\* The complete rules of the definition for the state of the last call.
WholeRulesOfPre ==
    {r \in (IF PreState \in DOMAIN config.transitions
            THEN Range(config.transitions[PreState]) ELSE {}) :
        RuleFields \subseteq DOMAIN r}

\* C16 a transition is all-or-nothing: after every step_machine call, however
\* it ended, either a rule's write, state update and head move are all
\* applied, or none is: the cell under the normalized head, the state name
\* and the head are as the normalization left them.
C16_AllOrNothing ==
    calls >= 1 =>
        \/ \E r \in WholeRulesOfPre :
              /\ r.read = SymbolRead
              /\ tape[NHead + 1] = r.write
              /\ state = r.to_state
              /\ head = (IF r.action = "RIGHT" THEN NHead + 1 ELSE NHead - 1)
        \/ /\ tape[NHead + 1] = SymbolRead
           /\ state = PreState
           /\ head = NHead

\* The rule list of the definition for the state of the last call.
RuleListOfPre == IF PreState \in DOMAIN config.transitions
                 THEN config.transitions[PreState] ELSE <<>>

\* C12 first-match tie-break: when the rule list of the current state has a
\* rule that reads the symbol under the head, the call succeeds, duplicates
\* or not, and what it applies (write, to_state, action) is the first such
\* rule in declaration order.
C12_FirstMatch ==
    calls >= 1 =>
        LET rules == RuleListOfPre
            readers == {i \in 1..Len(rules) : rules[i].read = SymbolRead}
        IN  /\ readers # {} => ref = "obj"
            /\ readers = {} => ref = "None"
            /\ ref = "obj" =>
                  \E i \in readers :
                      /\ \A j \in readers : i <= j
                      /\ tape[NHead + 1] = rules[i].write
                      /\ state = rules[i].to_state
                      /\ head = (IF rules[i].action = "RIGHT" THEN NHead + 1
                                 ELSE NHead - 1)

\* A step in a state with two rules for the symbol read that differ in
\* write, to_state and action: the first one was applied.
C12_Witness ==
    /\ Completed
    /\ Len(RuleListOfPre) = 2
    /\ RuleListOfPre[1].read = SymbolRead /\ RuleListOfPre[2].read = SymbolRead
    /\ RuleListOfPre[1].write # RuleListOfPre[2].write
    /\ RuleListOfPre[1].to_state # RuleListOfPre[2].to_state
    /\ RuleListOfPre[1].action # RuleListOfPre[2].action
    /\ tape[NHead + 1] = RuleListOfPre[1].write
    /\ state = RuleListOfPre[1].to_state

\* The number of cells the run has inserted at the front of its tape: the
\* tape index i holds the cell at position i - Offset of the infinite tape.
Offset == Cardinality({k \in 1..calls : emitted[k][2] < 0})

\* The outcome the run has reached after its last call.
EngineStatus == IF ref = "None" THEN "rejected"
                ELSE IF state \in config.finals THEN "halted"
                ELSE "running"

\* C13 the lazy tape refines the two-way infinite one: after the same number
\* of steps the run and the reference agree on the state name, on the head
\* position (tape index minus the cells inserted at the front), on the
\* symbol under the head and on every cell, the stored tape being placed at
\* its offset and padded with blanks; they halt or reject at the same step.
C13_LazyTapeRefinesInfinite ==
    pc \in {"loop", "halted", "rejected"} =>
        /\ ideal.steps = calls
        /\ ideal.status = EngineStatus
        /\ ideal.state = state
        /\ ideal.pos = head - Offset
        /\ ideal.cells[ideal.pos] = (IF 0 <= head /\ head < Len(tape)
                                     THEN tape[head + 1] ELSE config.blank)
        /\ \A p \in Window :
              ideal.cells[p] = (IF 0 <= p + Offset /\ p + Offset < Len(tape)
                                THEN tape[p + Offset + 1] ELSE config.blank)

\* A run that halted after growing its tape at the front, with a non-blank
\* symbol left at a negative position of the infinite tape.
C13_Witness ==
    /\ pc = "halted"
    /\ calls >= 2
    /\ Offset >= 1
    /\ ideal.status = "halted"
    /\ \E p \in Window : p < 0 /\ ideal.cells[p] # config.blank

\* The prefix and suffix the contract names, word by word.
C14_FixedPrefix ==
    <<"1", ".", "+", "=">> \o <<" ">> \o <<".">> \o <<" ">> \o <<"A", "B", "C">>
    \o <<" ">> \o <<"a", "A", "1", "B", ".", ">">>
    \o <<" ">> \o <<"b", "B", "1", "B", "1", ">">>
    \o <<" ">> \o <<"b", "B", "+", "B", "1", ">">>
    \o <<" ">> \o <<"b", "B", "=", "C", ".", ">">>
    \o <<" ">> \o <<"#">>

C14_FixedSuffix == <<" ", "@">>

\* C14 the UTM encoding of an input is the fixed prefix, then the input,
\* then the fixed suffix: the seed of a UTM run is as long as the three
\* together, starts with the prefix, carries every character of the input
\* at its place after the prefix, and ends with the suffix, whatever the
\* input.
C14_UtmEncodeConcatenates ==
    (pc # "start" /\ valid /\ is_utm) =>
        LET n == Len(C14_FixedPrefix)
            k == Len(raw)
        IN  /\ Len(input_str) = n + k + Len(C14_FixedSuffix)
            /\ \A i \in 1..n : input_str[i] = C14_FixedPrefix[i]
            /\ \A i \in 1..k : input_str[n + i] = raw[i]
            /\ \A i \in 1..Len(C14_FixedSuffix) :
                  input_str[n + k + i] = C14_FixedSuffix[i]

\* A UTM run was started on an input of two different characters.
C14_Witness ==
    /\ pc = "loop"
    /\ valid
    /\ is_utm
    /\ Len(raw) = 2
    /\ raw[1] # raw[2]
    /\ tape = input_str

RunEnded == pc \in {"halted", "rejected"}

\* The run is still going after the last step that is explored.
AtHorizon == pc = "loop" /\ calls = MaxSteps /\ LoopCond(ref, state, config.finals)

\* C15 no step limit: a run ends only as halted (state in finals) or as
\* rejected (no rule found); as long as the last step found a rule and the
\* state is not final the run has not ended, however many steps it took; and
\* a started run goes on until it has ended or has taken every step that is
\* explored.
C15_NoStepLimit ==
    /\ [](pc = "halted" => (ref = "obj" /\ state \in config.finals))
    /\ [](pc = "rejected" => ref = "None")
    /\ [](LoopCond(ref, state, config.finals) => pc = "loop")
    /\ (pc = "loop") ~> (RunEnded \/ AtHorizon)

\* A definition without final states, every step so far found a rule: the
\* run is still going after the last explored step.
C15_Witness ==
    /\ AtHorizon
    /\ config.finals = {}
    /\ ref = "obj"
    /\ Len(emitted) = MaxSteps

\* The state the run is in, as a snapshot.
Snapshot == <<tape, head, state>>

\* C17 emission order: the snapshots are emitted in execution order, one per
\* state passed through and before the next step is taken: the first is the
\* initial state (seed, head 0, initial state name), each later one is the
\* result of one step from the one before, and there is one per step taken;
\* on halted the final state is emitted last and its tape is the result.
C17_EmissionOrder ==
    pc \in {"loop", "halted", "rejected"} =>
        /\ Len(emitted) = calls + (IF pc = "halted" THEN 1 ELSE 0)
        /\ Len(emitted) >= 1 => emitted[1] = <<input_str, 0, config.initial>>
        /\ \A k \in 1..(Len(emitted) - 1) :
              \E o \in step_machine(config, emitted[k][1], emitted[k][2], emitted[k][3]) :
                  /\ o.ret = "obj"
                  /\ emitted[k + 1] = <<o.tape, o.head, o.state>>
        /\ (pc = "loop" /\ ref = "obj" /\ calls >= 1) =>
              \E o \in step_machine(config, emitted[calls][1], emitted[calls][2],
                                    emitted[calls][3]) :
                  o.ret = "obj" /\ Snapshot = <<o.tape, o.head, o.state>>
        /\ pc = "halted" =>
              /\ emitted[Len(emitted)] = Snapshot
              /\ state \in config.finals
              /\ result = emitted[Len(emitted)][1]

\* A run halted after two steps that grew the tape: three snapshots, the
\* last one the accepting state with the grown tape as result.
C17_Witness ==
    /\ pc = "halted"
    /\ calls = 2
    /\ Len(emitted) = 3
    /\ Len(result) > Len(input_str)
    /\ emitted[3][3] \in config.finals

\* C18 head excursion: in every state of every run the head is at most one
\* cell outside the tape, -1 <= head <= len(tape); the state object each
\* call receives satisfies the same, and the index the call reads at, after
\* its normalization, is inside the tape it reads from, also when the seed
\* is empty.
C18_HeadExcursion ==
    /\ -1 <= head
    /\ head <= Len(tape)
    /\ \A k \in 1..Len(emitted) :
          -1 <= emitted[k][2] /\ emitted[k][2] <= Len(emitted[k][1])
    /\ calls >= 1 =>
          /\ 0 <= NHead
          /\ NHead < Len(tape)
          /\ Len(tape) >= 1

\* The first call of a run on an empty seed read the blank of the cell it
\* added and moved left, off the tape again.
C18_Witness ==
    /\ raw = <<>>
    /\ calls = 1
    /\ PreTape = <<>>
    /\ ref = "obj"
    /\ Len(tape) = 1
    /\ head = -1

\* The head of the last call was outside the stored cells when it started.
PreOutside == PreHead = -1 \/ PreHead = Len(PreTape)

\* C19 tape length: the tape never gets shorter from one snapshot to the
\* next and grows by at most one cell per step; the last step added one
\* cell if it was entered with the head at -1 or at len(tape), and left the
\* length unchanged if it was entered with the head inside.
C19_TapeLengthMonotone ==
    /\ \A k \in 1..(Len(emitted) - 1) :
          /\ Len(emitted[k + 1][1]) >= Len(emitted[k][1])
          /\ Len(emitted[k + 1][1]) <= Len(emitted[k][1]) + 1
          /\ Len(emitted[k + 1][1]) > Len(emitted[k][1]) =>
                emitted[k][2] \in {-1, Len(emitted[k][1])}
    /\ calls >= 1 =>
          /\ PreOutside => Len(tape) = Len(PreTape) + 1
          /\ ~PreOutside => Len(tape) = Len(PreTape)

\* Two steps, the first entered with the head inside and keeping the
\* length, the second entered with the head outside and adding a cell.
C19_Witness ==
    /\ pc = "loop"
    /\ calls = 2
    /\ Len(emitted[2][1]) = Len(emitted[1][1])
    /\ PreOutside
    /\ Len(tape) = Len(PreTape) + 1

\* The symbols a definition allows on a tape.
Allowed == Range(config.alphabet) \cup {config.blank}

\* Every rule of the definition writes an allowed symbol.
WritesAllowed ==
    \A q \in DOMAIN config.transitions :
        \A i \in 1..Len(config.transitions[q]) :
            config.transitions[q][i].write \in Allowed

====
